---- MODULE Spec2Model ----
(***************************************************************************)
(* Model of the Lycosidae interpreter service: the entity tables, the six  *)
(* relationship tables and the HTTP handlers of routers.py together with   *)
(* the storage functions of dbutils_mysql.py they call; and of the request *)
(* loop of its test client, teste.py.                                      *)
(*                                                                         *)
(* Abstractions.  For the relationship handlers an entity row is its id    *)
(* only (uuid4, here a small integer), and the payload fields that decide  *)
(* an entity handler's branch (an e-mail already registered, an invite     *)
(* code already in use) are inputs of the action; the entity handlers are  *)
(* taken again with the columns of their rows further below, under a       *)
(* specification of their own.  A relationship table is a bag of (left id, *)
(* right id) pairs: models.py declares no uniqueness constraint on the     *)
(* pair, and the row's own uuid only makes equal pairs distinct rows.      *)
(*                                                                         *)
(* The database outlives the process: Init allows any rows in the entity   *)
(* tables the service is started against; relationship tables start empty. *)
(***************************************************************************)
EXTENDS Integers, FiniteSets, Sequences, TLC

\* Bounds of the model: the number of distinct ids per entity table.
MaxUser == 2
MaxCompetition == 1
MaxExercise == 1
MaxTag == 1
MaxTeam == 1
MaxContainer == 1
\* Bounds of the concurrent scenario: clients, and requests each one sends.
NumClients == 2
MaxRequests == 1

\* Entity tables (models.py __tablename__).
Tables == {"users", "competitions", "exercises", "tags", "teams", "containers"}

\* Relationship tables (models.py __tablename__).
Kinds == {"user_competitions", "user_teams", "team_competitions",
          "exercise_tags", "exercise_competitions", "container_competitions"}

Ids(t) ==
    CASE t = "users" -> 1..MaxUser
      [] t = "competitions" -> 1..MaxCompetition
      [] t = "exercises" -> 1..MaxExercise
      [] t = "tags" -> 1..MaxTag
      [] t = "teams" -> 1..MaxTeam
      [] t = "containers" -> 1..MaxContainer

\* The entity table the first foreign key of a relationship table refers to.
LeftTable(k) ==
    CASE k = "user_competitions" -> "users"
      [] k = "user_teams" -> "users"
      [] k = "team_competitions" -> "teams"
      [] k = "exercise_tags" -> "exercises"
      [] k = "exercise_competitions" -> "exercises"
      [] k = "container_competitions" -> "containers"

\* The entity table the second foreign key of a relationship table refers to.
RightTable(k) ==
    CASE k = "user_competitions" -> "competitions"
      [] k = "user_teams" -> "teams"
      [] k = "team_competitions" -> "competitions"
      [] k = "exercise_tags" -> "tags"
      [] k = "exercise_competitions" -> "competitions"
      [] k = "container_competitions" -> "competitions"

\* Tables whose create handler can add a row: create_competition,
\* create_exercise and create_container always raise (see below).
Creatable == {"users", "tags", "teams"}

Pairs(k) == Ids(LeftTable(k)) \X Ids(RightTable(k))

VARIABLES
    entity,   \* entity[t]: the ids of the rows of entity table t
    nextId,   \* nextId[t]: the next fresh id of table t (uuid4 never repeats)
    rel,      \* rel[k][<<a, b>>]: the number of rows of table k with that pair
    last,     \* the last completed request and its response (one at a time)
    req,      \* req[c]: the request client c has in flight (concurrent clients)
    row,      \* row[t][id]: the columns of row id of entity table t
    reply,    \* the last completed entity request, its payload and its response
    tester    \* the test client: the make_request call it is in

vars == <<entity, nextId, rel, last, req, row, reply, tester>>

NoRequest == [op |-> "none", table |-> "none", a |-> 0, b |-> 0,
              status |-> 0, detail |-> "none"]

Response(op, t, a, b, status, detail) ==
    [op |-> op, table |-> t, a |-> a, b |-> b, status |-> status, detail |-> detail]

Clients == 1..NumClients

Idle == [pc |-> "idle", op |-> "none", table |-> "none", a |-> 0, b |-> 0,
         status |-> 0, sent |-> 0]

EmptyRel == [k \in Kinds |-> [p \in Pairs(k) |-> 0]]

\* The entity tables whose columns the handlers compare or resolve.
EmptyRows == [users |-> << >>, competitions |-> << >>, tags |-> << >>, teams |-> << >>]

\* The test client before its first call.
NoCall == [pc |-> "idle", supported |-> TRUE, max_retries |-> 0, attempt |-> 0,
           sent |-> 0, outcome |-> "none", results |-> 0, calls |-> 0]

NoReply == [op |-> "none", table |-> "none", id |-> 0, x |-> 0, y |-> 0,
            status |-> 0, detail |-> "none"]

\* Tables whose create handler can succeed hold the ids 1..n handed out so
\* far; the other tables hold whatever rows the database was seeded with.
\* The columns of the rows are left out here (row stays empty): the handlers
\* below take the outcome of a comparison of columns as an input.
Init ==
    /\ \E nu \in 0..MaxUser :
        \E cs \in SUBSET Ids("competitions"), es \in SUBSET Ids("exercises"),
           ks \in SUBSET Ids("containers") :
            entity = [t \in Tables |->
                        CASE t = "users" -> 1..nu
                          [] t = "competitions" -> cs
                          [] t = "exercises" -> es
                          [] t = "containers" -> ks
                          [] OTHER -> {}]
    /\ nextId = [t \in Creatable |-> Cardinality(entity[t]) + 1]
    /\ rel = EmptyRel
    /\ last = NoRequest
    /\ req = [c \in Clients |-> Idle]
    /\ tester = NoCall
    /\ row = EmptyRows
    /\ reply = NoReply

(***************************************************************************)
(* dbutils_mysql.py: lookups by id.  The result is "None", "DTO" or the    *)
(* exception the function raises.                                          *)
(***************************************************************************)
get_user_by_id(id) == IF id \in entity["users"] THEN "DTO" ELSE "None"

\* Variant: every competition id is taken to exist.
get_competition_by_id_any(id) == "DTO"

get_competition_by_id(id) == IF id \in entity["competitions"] THEN "DTO" ELSE "None"

\* An existing row is read with exercise.port, an attribute the Exercise
\* model of models.py does not declare: AttributeError.
get_exercise_by_id(id) == IF id \in entity["exercises"] THEN "AttributeError" ELSE "None"

get_tag_by_id(id) == IF id \in entity["tags"] THEN "DTO" ELSE "None"

get_team_by_id(id) == IF id \in entity["teams"] THEN "DTO" ELSE "None"

get_container_by_id(id) == IF id \in entity["containers"] THEN "DTO" ELSE "None"

\* The existence check a relationship handler makes for a row of table t.
get_by_id(t, id) ==
    CASE t = "users" -> get_user_by_id(id)
      [] t = "competitions" -> get_competition_by_id(id)
      [] t = "exercises" -> get_exercise_by_id(id)
      [] t = "tags" -> get_tag_by_id(id)
      [] t = "teams" -> get_team_by_id(id)
      [] t = "containers" -> get_container_by_id(id)

(***************************************************************************)
(* dbutils_mysql.py: the relationship functions.  The six create functions *)
(* are the same code over six tables, and so are the six delete functions. *)
(***************************************************************************)
\* db.query(K).filter(K.left == a, K.right == b).first()
find_relationship(r, k, a, b) == r[k][<<a, b>>] > 0

\* Variant: the row is committed twice.
insert_row_twice(r, k, a, b) == [r EXCEPT ![k][<<a, b>>] = @ + 2]

\* Variant: the row is never committed.
insert_row_lost(r, k, a, b) == r

\* db.add(K(left=a, right=b)); db.commit()
insert_row(r, k, a, b) == [r EXCEPT ![k][<<a, b>>] = @ + 1]

\* Variant: every row of the table is deleted.
delete_row_of_kind(r, k, a, b) == [r EXCEPT ![k] = [p \in Pairs(k) |-> 0]]

\* db.delete(row); db.commit(), row being the one .first() returned
delete_row(r, k, a, b) == [r EXCEPT ![k][<<a, b>>] = @ - 1]

\* Variant: the duplicate lookup is skipped.
create_relationship_unchecked(k, a, b) ==
    [ret |-> "DTO", rel |-> insert_row(rel, k, a, b)]

\* create_<kind>(db, dto): None when the pair is already there, else the DTO.
create_relationship(k, a, b) ==
    IF find_relationship(rel, k, a, b)
    THEN [ret |-> "None", rel |-> rel]
    ELSE [ret |-> "DTO", rel |-> insert_row(rel, k, a, b)]

\* Variant: True is returned for a row that is found but not deleted.
delete_relationship_keeps_row(k, a, b) ==
    [ret |-> find_relationship(rel, k, a, b), rel |-> rel]

\* delete_<kind>(db, a, b): False when no row has the pair, else True.
delete_relationship(k, a, b) ==
    IF ~find_relationship(rel, k, a, b)
    THEN [ret |-> FALSE, rel |-> rel]
    ELSE [ret |-> TRUE, rel |-> delete_row(rel, k, a, b)]

(***************************************************************************)
(* routers.py: the relationship handlers, as the response and the          *)
(* relationship tables they leave.                                         *)
(***************************************************************************)
Result(status, detail, r) == [status |-> status, detail |-> detail, rel |-> r]

\* POST /<kind>: left existence, right existence, then the engine.
create_relationship_endpoint(k, a, b) ==
    LET left == get_by_id(LeftTable(k), a) IN
    IF left = "AttributeError" THEN Result(500, "internal error", rel)
    ELSE IF left = "None" THEN Result(400, "ref_a not found", rel)
    ELSE LET right == get_by_id(RightTable(k), b) IN
         IF right = "AttributeError" THEN Result(500, "internal error", rel)
         ELSE IF right = "None" THEN Result(400, "ref_b not found", rel)
         ELSE LET created == create_relationship(k, a, b) IN
              IF created.ret = "None"
              THEN Result(400, "already exists", rel)
              ELSE Result(201, "created", created.rel)

\* Variant: the delete checks the two entities as the create does.
delete_relationship_endpoint_checked(k, a, b) ==
    IF a \notin entity[LeftTable(k)] THEN Result(400, "ref_a not found", rel)
    ELSE IF b \notin entity[RightTable(k)] THEN Result(400, "ref_b not found", rel)
    ELSE IF ~find_relationship(rel, k, a, b) THEN Result(404, "not found", rel)
    ELSE Result(200, "deleted", delete_row(rel, k, a, b))

\* DELETE /<kind>/{a}/{b}
delete_relationship_endpoint(k, a, b) ==
    LET success == delete_relationship(k, a, b) IN
    IF ~success.ret
    THEN Result(404, "not found", rel)
    ELSE Result(200, "deleted", success.rel)

CreateRelationship(k, a, b) ==
    LET res == create_relationship_endpoint(k, a, b) IN
    /\ rel' = res.rel
    /\ last' = Response("create_relationship", k, a, b, res.status, res.detail)
    /\ UNCHANGED <<tester, row, reply, entity, nextId, req>>

DeleteRelationship(k, a, b) ==
    LET res == delete_relationship_endpoint(k, a, b) IN
    /\ rel' = res.rel
    /\ last' = Response("delete_relationship", k, a, b, res.status, res.detail)
    /\ UNCHANGED <<tester, row, reply, entity, nextId, req>>

create_user_competition_endpoint ==
    \E p \in Pairs("user_competitions") : CreateRelationship("user_competitions", p[1], p[2])

delete_user_competition_endpoint ==
    \E p \in Pairs("user_competitions") : DeleteRelationship("user_competitions", p[1], p[2])

create_user_team_endpoint ==
    \E p \in Pairs("user_teams") : CreateRelationship("user_teams", p[1], p[2])

delete_user_team_endpoint ==
    \E p \in Pairs("user_teams") : DeleteRelationship("user_teams", p[1], p[2])

create_team_competition_endpoint ==
    \E p \in Pairs("team_competitions") : CreateRelationship("team_competitions", p[1], p[2])

delete_team_competition_endpoint ==
    \E p \in Pairs("team_competitions") : DeleteRelationship("team_competitions", p[1], p[2])

create_exercise_tag_endpoint ==
    \E p \in Pairs("exercise_tags") : CreateRelationship("exercise_tags", p[1], p[2])

delete_exercise_tag_endpoint ==
    \E p \in Pairs("exercise_tags") : DeleteRelationship("exercise_tags", p[1], p[2])

create_exercise_competition_endpoint ==
    \E p \in Pairs("exercise_competitions") :
        CreateRelationship("exercise_competitions", p[1], p[2])

delete_exercise_competition_endpoint ==
    \E p \in Pairs("exercise_competitions") :
        DeleteRelationship("exercise_competitions", p[1], p[2])

create_container_competition_endpoint ==
    \E p \in Pairs("container_competitions") :
        CreateRelationship("container_competitions", p[1], p[2])

delete_container_competition_endpoint ==
    \E p \in Pairs("container_competitions") :
        DeleteRelationship("container_competitions", p[1], p[2])

RelationshipOps ==
    \/ create_user_competition_endpoint
    \/ delete_user_competition_endpoint
    \/ create_user_team_endpoint
    \/ delete_user_team_endpoint
    \/ create_team_competition_endpoint
    \/ delete_team_competition_endpoint
    \/ create_exercise_tag_endpoint
    \/ delete_exercise_tag_endpoint
    \/ create_exercise_competition_endpoint
    \/ delete_exercise_competition_endpoint
    \/ create_container_competition_endpoint
    \/ delete_container_competition_endpoint

(***************************************************************************)
(* routers.py and dbutils_mysql.py: the entity handlers.  None of them     *)
(* reads or writes a relationship table.                                   *)
(***************************************************************************)
\* db.add(row); db.commit() with a fresh uuid4 as id
add_entity(t) ==
    /\ entity' = [entity EXCEPT ![t] = @ \cup {nextId[t]}]
    /\ nextId' = [nextId EXCEPT ![t] = @ + 1]

\* Variant: the delete cascades to the relationship rows naming the entity.
delete_entity_cascade(t, id) ==
    [ret |-> id \in entity[t],
     entity |-> [entity EXCEPT ![t] = @ \ {id}],
     rel |-> [k \in Kinds |-> [p \in Pairs(k) |->
                IF \/ (LeftTable(k) = t /\ p[1] = id)
                   \/ (RightTable(k) = t /\ p[2] = id)
                THEN 0 ELSE rel[k][p]]]]

\* Variant: True is returned whether or not a row has the id.
delete_entity_always_true(t, id) ==
    [ret |-> TRUE, entity |-> [entity EXCEPT ![t] = @ \ {id}], rel |-> rel]

\* Variant: the delete of a row that relationship rows name is refused.
delete_entity_restrict(t, id) ==
    IF \/ id \notin entity[t]
       \/ \E k \in Kinds : \E p \in Pairs(k) :
            /\ rel[k][p] > 0
            /\ \/ (LeftTable(k) = t /\ p[1] = id)
               \/ (RightTable(k) = t /\ p[2] = id)
    THEN [ret |-> FALSE, entity |-> entity, rel |-> rel]
    ELSE [ret |-> TRUE, entity |-> [entity EXCEPT ![t] = @ \ {id}], rel |-> rel]

\* delete_<entity>(db, id): False when no row has the id, else the row is
\* deleted and committed.  The row alone is deleted: models.py declares no
\* cascade, and the storage is taken not to refuse the delete of a row that
\* relationship rows still reference (the design has it leave them dangling).
delete_entity(t, id) ==
    IF id \notin entity[t]
    THEN [ret |-> FALSE, entity |-> entity, rel |-> rel]
    ELSE [ret |-> TRUE, entity |-> [entity EXCEPT ![t] = @ \ {id}], rel |-> rel]

\* DELETE /<entities>/{id}
delete_entity_endpoint(t, id) ==
    LET success == delete_entity(t, id) IN
    /\ entity' = success.entity
    /\ rel' = success.rel
    /\ last' = IF success.ret
               THEN Response("delete", t, id, 0, 200, "deleted")
               ELSE Response("delete", t, id, 0, 404, "not found")
    /\ UNCHANGED <<tester, row, reply, nextId, req>>

\* A handler that answers without writing.
Reject(op, t, id, status, detail) ==
    /\ last' = Response(op, t, id, 0, status, detail)
    /\ UNCHANGED <<tester, row, reply, entity, nextId, rel, req>>

\* POST /register.  collides: what the payload shares with a registered user.
user_register ==
    \E collides \in {"email", "username", "none"} :
        IF collides # "none"
        THEN /\ entity["users"] # {}
             /\ Reject("create", "users", 0, 400, collides)
        ELSE /\ nextId["users"] <= MaxUser
             /\ add_entity("users")
             /\ last' = Response("create", "users", nextId["users"], 0, 201, "created")
             /\ UNCHANGED <<tester, row, reply, rel, req>>

\* POST /competitions.  create_competition calls .replace('Z', '+00:00') on
\* start_date, which CompetitionCreateDTO declares a datetime: TypeError.
create_competition_endpoint ==
    \E inUse \in BOOLEAN :
        IF inUse
        THEN /\ entity["competitions"] # {}
             /\ Reject("create", "competitions", 0, 400, "invite_code")
        ELSE Reject("create", "competitions", 0, 500, "internal error")

\* PUT /competitions/{id}.  update_competition raises the same TypeError.
update_competition_endpoint ==
    \E id \in Ids("competitions"), conflict \in BOOLEAN :
        IF get_competition_by_id(id) = "None"
        THEN /\ ~conflict
             /\ Reject("update", "competitions", id, 404, "not found")
        ELSE IF conflict
        THEN /\ entity["competitions"] \ {id} # {}
             /\ Reject("update", "competitions", id, 400, "invite_code")
        ELSE Reject("update", "competitions", id, 500, "internal error")

delete_competition_endpoint ==
    \E id \in Ids("competitions") : delete_entity_endpoint("competitions", id)

\* POST /exercises.  create_exercise reads exercise_dto.port, a field
\* ExerciseCreateDTO does not declare: AttributeError.
create_exercise_endpoint == Reject("create", "exercises", 0, 500, "internal error")

\* PUT /exercises/{id}.  update_exercise reads exercise_dto.port before it
\* commits.
update_exercise_endpoint ==
    \E id \in Ids("exercises") :
        IF id \notin entity["exercises"]
        THEN Reject("update", "exercises", id, 404, "not found")
        ELSE Reject("update", "exercises", id, 500, "internal error")

delete_exercise_endpoint ==
    \E id \in Ids("exercises") : delete_entity_endpoint("exercises", id)

\* POST /tags
create_tag_endpoint ==
    \E inUse \in BOOLEAN :
        IF inUse
        THEN /\ entity["tags"] # {}
             /\ Reject("create", "tags", 0, 400, "type")
        ELSE /\ nextId["tags"] <= MaxTag
             /\ add_entity("tags")
             /\ last' = Response("create", "tags", nextId["tags"], 0, 201, "created")
             /\ UNCHANGED <<tester, row, reply, rel, req>>

\* PUT /tags/{id}
update_tag_endpoint ==
    \E id \in Ids("tags"), conflict \in BOOLEAN :
        IF get_tag_by_id(id) = "None"
        THEN /\ ~conflict
             /\ Reject("update", "tags", id, 404, "not found")
        ELSE IF conflict
        THEN /\ entity["tags"] \ {id} # {}
             /\ Reject("update", "tags", id, 400, "type")
        ELSE Reject("update", "tags", id, 200, "updated")

\* Variant: a DELETE handler for users, which the router does not have.
delete_user_endpoint ==
    \E id \in Ids("users") : delete_entity_endpoint("users", id)

delete_tag_endpoint ==
    \E id \in Ids("tags") : delete_entity_endpoint("tags", id)

\* POST /teams
create_team_endpoint ==
    \E competition \in Ids("competitions"), creator \in Ids("users") :
        IF get_competition_by_id(competition) = "None"
        THEN Reject("create", "teams", 0, 400, "competition")
        ELSE IF get_user_by_id(creator) = "None"
        THEN Reject("create", "teams", 0, 400, "creator")
        ELSE /\ nextId["teams"] <= MaxTeam
             /\ add_entity("teams")
             /\ last' = Response("create", "teams", nextId["teams"], 0, 201, "created")
             /\ UNCHANGED <<tester, row, reply, rel, req>>

\* PUT /teams/{id}
update_team_endpoint ==
    \E id \in Ids("teams"), competition \in Ids("competitions"), creator \in Ids("users") :
        IF get_competition_by_id(competition) = "None"
        THEN Reject("update", "teams", id, 400, "competition")
        ELSE IF get_user_by_id(creator) = "None"
        THEN Reject("update", "teams", id, 400, "creator")
        ELSE IF id \notin entity["teams"]
        THEN Reject("update", "teams", id, 404, "not found")
        ELSE Reject("update", "teams", id, 200, "updated")

delete_team_endpoint ==
    \E id \in Ids("teams") : delete_entity_endpoint("teams", id)

\* POST /containers.  create_container calls .replace('Z', '+00:00') on
\* deadline, which ContainerCreateDTO declares a datetime: TypeError.
create_container_endpoint == Reject("create", "containers", 0, 500, "internal error")

\* PUT /containers/{id}.  update_container raises the same TypeError.
update_container_endpoint ==
    \E id \in Ids("containers") :
        IF id \notin entity["containers"]
        THEN Reject("update", "containers", id, 404, "not found")
        ELSE Reject("update", "containers", id, 500, "internal error")

delete_container_endpoint ==
    \E id \in Ids("containers") : delete_entity_endpoint("containers", id)

EntityOps ==
    \/ user_register
    \/ create_competition_endpoint
    \/ update_competition_endpoint
    \/ delete_competition_endpoint
    \/ create_exercise_endpoint
    \/ update_exercise_endpoint
    \/ delete_exercise_endpoint
    \/ create_tag_endpoint
    \/ update_tag_endpoint
    \/ delete_tag_endpoint
    \/ create_team_endpoint
    \/ update_team_endpoint
    \/ delete_team_endpoint
    \/ create_container_endpoint
    \/ update_container_endpoint
    \/ delete_container_endpoint

\* Requests are served one at a time, each handler running to its response.
Next == RelationshipOps \/ EntityOps

Spec == Init /\ [][Next]_vars

(***************************************************************************)
(* Storage failures.  db.commit() can raise (connection lost, constraint   *)
(* violated): create_<kind> and delete_<kind> log and re-raise, and the    *)
(* handler's except Exception clause answers 500.  Nothing is tried again. *)
(***************************************************************************)
\* Variant: a failed commit leaves the pending write applied.
storage_commit_partial(before, after, ok) == after

\* db.commit(): the session's pending writes are one transaction, applied
\* as a whole or, when the commit fails, not at all.
storage_commit(before, after, ok) == IF ok THEN after ELSE before

\* POST /<kind> whose db.commit() raises: the checks have passed and the row
\* has been added to the session.
CreateRelationshipCommitFails(k, a, b) ==
    LET res == create_relationship_endpoint(k, a, b) IN
    /\ res.status = 201
    /\ rel' = storage_commit(rel, res.rel, FALSE)
    /\ last' = Response("create_relationship", k, a, b, 500, "commit failed")
    /\ UNCHANGED <<tester, row, reply, entity, nextId, req>>

\* DELETE /<kind>/{a}/{b} whose db.commit() raises: the row has been found
\* and marked deleted in the session.
DeleteRelationshipCommitFails(k, a, b) ==
    LET res == delete_relationship_endpoint(k, a, b) IN
    /\ res.status = 200
    /\ rel' = storage_commit(rel, res.rel, FALSE)
    /\ last' = Response("delete_relationship", k, a, b, 500, "commit failed")
    /\ UNCHANGED <<tester, row, reply, entity, nextId, req>>

StorageFaults ==
    \E k \in Kinds : \E p \in Pairs(k) :
        \/ CreateRelationshipCommitFails(k, p[1], p[2])
        \/ DeleteRelationshipCommitFails(k, p[1], p[2])

FaultNext == Next \/ StorageFaults

FaultSpec == Init /\ [][FaultNext]_vars

(***************************************************************************)
(* Concurrent requests.  Every request has its own session (Depends on     *)
(* get_db), so its reads and its commit are separate storage steps and     *)
(* another request's commit can fall between them.  The reads of one       *)
(* handler are taken together, as of its first read: a consistent          *)
(* snapshot, MySQL's default isolation.  No handler takes a lock.          *)
(***************************************************************************)
Sent(c, pc, op, t, a, b, status) ==
    [pc |-> pc, op |-> op, table |-> t, a |-> a, b |-> b, status |-> status,
     sent |-> req[c].sent + 1]

MaySend(c) == req[c].pc = "idle" /\ req[c].sent < MaxRequests

\* create_<kind>_endpoint up to and including the .first() of create_<kind>:
\* the request is answered at once unless the row is to be inserted.
CreateCheck(c, k, a, b) ==
    LET res == create_relationship_endpoint(k, a, b) IN
    /\ MaySend(c)
    /\ req' = [req EXCEPT ![c] =
                 IF res.status = 201
                 THEN Sent(c, "insert", "create_relationship", k, a, b, 0)
                 ELSE Sent(c, "done", "create_relationship", k, a, b, res.status)]
    /\ UNCHANGED <<tester, row, reply, entity, nextId, rel, last>>

\* db.add(row); db.commit() of create_<kind>, and the 201 response.
CreateInsert(c) ==
    /\ req[c].pc = "insert"
    /\ rel' = insert_row(rel, req[c].table, req[c].a, req[c].b)
    /\ req' = [req EXCEPT ![c].pc = "done", ![c].status = 201]
    /\ UNCHANGED <<tester, row, reply, entity, nextId, last>>

\* delete_<kind> up to and including its .first().
DeleteRelationshipFind(c, k, a, b) ==
    /\ MaySend(c)
    /\ req' = [req EXCEPT ![c] =
                 IF find_relationship(rel, k, a, b)
                 THEN Sent(c, "delete", "delete_relationship", k, a, b, 0)
                 ELSE Sent(c, "done", "delete_relationship", k, a, b, 404)]
    /\ UNCHANGED <<tester, row, reply, entity, nextId, rel, last>>

\* db.delete(row); db.commit() of delete_<kind>: a row another request has
\* deleted meanwhile matches no row, which the commit does not report.
DeleteRelationshipCommit(c) ==
    /\ req[c].pc = "delete"
    /\ req[c].op = "delete_relationship"
    /\ rel' = IF find_relationship(rel, req[c].table, req[c].a, req[c].b)
              THEN delete_row(rel, req[c].table, req[c].a, req[c].b)
              ELSE rel
    /\ req' = [req EXCEPT ![c].pc = "done", ![c].status = 200]
    /\ UNCHANGED <<tester, row, reply, entity, nextId, last>>

\* delete_<entity> up to and including its .first().
DeleteEntityFind(c, t, id) ==
    /\ MaySend(c)
    /\ req' = [req EXCEPT ![c] =
                 IF id \in entity[t]
                 THEN Sent(c, "delete", "delete_entity", t, id, 0, 0)
                 ELSE Sent(c, "done", "delete_entity", t, id, 0, 404)]
    /\ UNCHANGED <<tester, row, reply, entity, nextId, rel, last>>

\* db.delete(row); db.commit() of delete_<entity>.
DeleteEntityCommit(c) ==
    LET success == delete_entity(req[c].table, req[c].a) IN
    /\ req[c].pc = "delete"
    /\ req[c].op = "delete_entity"
    /\ entity' = success.entity
    /\ rel' = success.rel
    /\ req' = [req EXCEPT ![c].pc = "done", ![c].status = 200]
    /\ UNCHANGED <<tester, row, reply, nextId, last>>

\* The client reads the response; it may then send its next request.
Receive(c) ==
    /\ req[c].pc = "done"
    /\ req' = [req EXCEPT ![c].pc = "idle"]
    /\ UNCHANGED <<tester, row, reply, entity, nextId, rel, last>>

ConcNext ==
    \E c \in Clients :
        \/ \E k \in Kinds : \E p \in Pairs(k) : CreateCheck(c, k, p[1], p[2])
        \/ CreateInsert(c)
        \/ \E k \in Kinds : \E p \in Pairs(k) : DeleteRelationshipFind(c, k, p[1], p[2])
        \/ DeleteRelationshipCommit(c)
        \/ \E t \in Tables \ {"users"} : \E id \in Ids(t) : DeleteEntityFind(c, t, id)
        \/ DeleteEntityCommit(c)
        \/ Receive(c)

ConcSpec == Init /\ [][ConcNext]_vars

(***************************************************************************)
(* The entity tables with their columns.  The handlers of users,           *)
(* competitions, tags and teams are taken here with the columns they       *)
(* compare (e-mail, username, invite code, type) or resolve (a team's      *)
(* competition and creator).  No entity handler reads or writes a          *)
(* relationship table, so these are checked apart from them.               *)
(***************************************************************************)
\* Bounds: the rows of the competitions and tags tables, and the distinct
\* values a payload takes for a column.
MaxRows == 2
NumValues == 2

Values == 1..NumValues

RowIds(t) ==
    CASE t = "users" -> 1..MaxUser
      [] t = "teams" -> 1..MaxTeam
      [] OTHER -> 1..MaxRows

Reply(op, t, id, x, y, status, detail) ==
    [op |-> op, table |-> t, id |-> id, x |-> x, y |-> y,
     status |-> status, detail |-> detail]

\* The competitions table holds the rows the database was seeded with, their
\* invite codes distinct (unique=True); the other tables start empty.
EntityInit ==
    /\ \E ids \in SUBSET RowIds("competitions") :
        \E codes \in [ids -> Values] :
            /\ \A i, j \in ids : i # j => codes[i] # codes[j]
            /\ row = [EmptyRows EXCEPT
                        !.competitions = [i \in ids |-> [invite_code |-> codes[i]]]]
    /\ reply = NoReply
    /\ entity = [t \in Tables |-> {}]
    /\ nextId = [t \in Creatable |-> 1]
    /\ rel = EmptyRel
    /\ last = NoRequest
    /\ req = [c \in Clients |-> Idle]
    /\ tester = NoCall

\* db.query(T).filter(T.id == id).first()
has_row(t, id) == id \in DOMAIN row[t]

\* Variant: no e-mail is ever found registered.
get_user_by_email_none(email) == "None"

get_user_by_email(email) ==
    IF \E id \in DOMAIN row.users : row.users[id].email = email THEN "DTO" ELSE "None"

get_user_by_username(username) ==
    IF \E id \in DOMAIN row.users : row.users[id].username = username
    THEN "DTO" ELSE "None"

\* Variant: no invite code is ever found in use.
get_competition_by_invite_code_none(invite_code) == "None"

get_competition_by_invite_code(invite_code) ==
    IF \E id \in DOMAIN row.competitions : row.competitions[id].invite_code = invite_code
    THEN "DTO" ELSE "None"

\* Variant: no type is ever found in use.
get_tag_by_type_none(type) == "None"

get_tag_by_type(type) ==
    IF \E id \in DOMAIN row.tags : row.tags[id].type = type THEN "DTO" ELSE "None"

\* Variant: the users table has no unique index.
create_user_unconstrained(email, username) ==
    [ret |-> "DTO",
     row |-> [row EXCEPT !.users =
                @ @@ (nextId.users :> [email |-> email, username |-> username])]]

\* create_user: the insert is refused by the storage (IntegrityError) when
\* it repeats a value of a unique column.
create_user(email, username) ==
    IF \E id \in DOMAIN row.users :
          row.users[id].email = email \/ row.users[id].username = username
    THEN [ret |-> "IntegrityError", row |-> row]
    ELSE [ret |-> "DTO",
          row |-> [row EXCEPT !.users =
                     @ @@ (nextId.users :> [email |-> email, username |-> username])]]

create_tag(type) ==
    IF \E id \in DOMAIN row.tags : row.tags[id].type = type
    THEN [ret |-> "IntegrityError", row |-> row]
    ELSE [ret |-> "DTO",
          row |-> [row EXCEPT !.tags = @ @@ (nextId.tags :> [type |-> type])]]

update_tag(id, type) ==
    IF ~has_row("tags", id) THEN [ret |-> "None", row |-> row]
    ELSE IF \E other \in DOMAIN row.tags \ {id} : row.tags[other].type = type
    THEN [ret |-> "IntegrityError", row |-> row]
    ELSE [ret |-> "DTO", row |-> [row EXCEPT !.tags[id].type = type]]

create_team(competition, creator) ==
    [ret |-> "DTO",
     row |-> [row EXCEPT !.teams =
                @ @@ (nextId.teams :> [competition |-> competition, creator |-> creator])]]

update_team(id, competition, creator) ==
    IF ~has_row("teams", id) THEN [ret |-> "None", row |-> row]
    ELSE [ret |-> "DTO",
          row |-> [row EXCEPT !.teams[id] =
                     [competition |-> competition, creator |-> creator]]]

\* delete_<entity>(db, id) on the table with its columns.
delete_by_id(t, id) ==
    IF ~has_row(t, id) THEN [ret |-> FALSE, row |-> row]
    ELSE [ret |-> TRUE,
          row |-> [row EXCEPT ![t] = [i \in DOMAIN row[t] \ {id} |-> row[t][i]]]]

\* A handler that answers without writing.
Refuse(op, t, id, x, y, status, detail) ==
    /\ reply' = Reply(op, t, id, x, y, status, detail)
    /\ UNCHANGED <<tester, row, nextId, entity, rel, last, req>>

\* A create handler that has committed the row with the next fresh id.
Created(t, x, y, written) ==
    /\ row' = written
    /\ nextId' = [nextId EXCEPT ![t] = @ + 1]
    /\ reply' = Reply("create", t, nextId[t], x, y, 201, "created")
    /\ UNCHANGED <<tester, entity, rel, last, req>>

\* An update handler that has committed the changed row.
Updated(t, id, x, y, written) ==
    /\ row' = written
    /\ reply' = Reply("update", t, id, x, y, 200, "updated")
    /\ UNCHANGED <<tester, nextId, entity, rel, last, req>>

\* DELETE /<entities>/{id}
Deleted(t, id) ==
    LET success == delete_by_id(t, id) IN
    /\ row' = success.row
    /\ reply' = IF success.ret
                THEN Reply("delete", t, id, 0, 0, 200, "deleted")
                ELSE Reply("delete", t, id, 0, 0, 404, "not found")
    /\ UNCHANGED <<tester, nextId, entity, rel, last, req>>

\* POST /register
UserRegister(email, username) ==
    IF get_user_by_email(email) # "None"
    THEN Refuse("create", "users", 0, email, username, 400, "email")
    ELSE IF get_user_by_username(username) # "None"
    THEN Refuse("create", "users", 0, email, username, 400, "username")
    ELSE LET user == create_user(email, username) IN
         IF user.ret # "DTO"
         THEN Refuse("create", "users", 0, email, username, 500, "internal error")
         ELSE /\ nextId.users <= MaxUser
              /\ Created("users", email, username, user.row)

\* POST /competitions: create_competition raises TypeError before it writes.
CreateCompetition(invite_code) ==
    IF get_competition_by_invite_code(invite_code) # "None"
    THEN Refuse("create", "competitions", 0, invite_code, 0, 400, "invite_code")
    ELSE Refuse("create", "competitions", 0, invite_code, 0, 500, "internal error")

\* PUT /competitions/{id}: update_competition raises TypeError before it writes.
UpdateCompetition(id, invite_code) ==
    IF ~has_row("competitions", id)
    THEN Refuse("update", "competitions", id, invite_code, 0, 404, "not found")
    ELSE IF /\ invite_code # row.competitions[id].invite_code
            /\ get_competition_by_invite_code(invite_code) # "None"
    THEN Refuse("update", "competitions", id, invite_code, 0, 400, "invite_code")
    ELSE Refuse("update", "competitions", id, invite_code, 0, 500, "internal error")

\* GET /competitions/{id}: the handler logs competition.dict(), whose dates
\* json.dumps of log_json cannot serialise: TypeError.
GetCompetition(id) ==
    IF ~has_row("competitions", id)
    THEN Refuse("get", "competitions", id, 0, 0, 404, "not found")
    ELSE Refuse("get", "competitions", id, 0, 0, 500, "internal error")

\* GET /competitions/invite/{invite_code}
GetCompetitionByInvite(invite_code) ==
    IF get_competition_by_invite_code(invite_code) = "None"
    THEN Refuse("get_by_invite", "competitions", 0, invite_code, 0, 404, "not found")
    ELSE Refuse("get_by_invite", "competitions", 0, invite_code, 0, 200, "found")

DeleteCompetition(id) == Deleted("competitions", id)

\* POST /tags
CreateTag(type) ==
    IF get_tag_by_type(type) # "None"
    THEN Refuse("create", "tags", 0, type, 0, 400, "type")
    ELSE LET tag == create_tag(type) IN
         IF tag.ret # "DTO"
         THEN Refuse("create", "tags", 0, type, 0, 500, "internal error")
         ELSE /\ nextId.tags <= MaxRows
              /\ Created("tags", type, 0, tag.row)

\* PUT /tags/{id}
UpdateTag(id, type) ==
    IF ~has_row("tags", id)
    THEN Refuse("update", "tags", id, type, 0, 404, "not found")
    ELSE IF type # row.tags[id].type /\ get_tag_by_type(type) # "None"
    THEN Refuse("update", "tags", id, type, 0, 400, "type")
    ELSE LET tag == update_tag(id, type) IN
         IF tag.ret # "DTO"
         THEN Refuse("update", "tags", id, type, 0, 500, "internal error")
         ELSE Updated("tags", id, type, 0, tag.row)

DeleteTag(id) == Deleted("tags", id)

\* Variant: the references of a team are not resolved.
resolves_any(t, id) == TRUE

\* get_competition_by_id / get_user_by_id as the team handlers call them.
resolves(t, id) == has_row(t, id)

\* POST /teams
CreateTeam(competition, creator) ==
    IF ~resolves("competitions", competition)
    THEN Refuse("create", "teams", 0, competition, creator, 400, "competition")
    ELSE IF ~resolves("users", creator)
    THEN Refuse("create", "teams", 0, competition, creator, 400, "creator")
    ELSE /\ nextId.teams <= MaxTeam
         /\ Created("teams", competition, creator, create_team(competition, creator).row)

\* Variant: the team is looked up before its references are.
UpdateTeamLookupFirst(id, competition, creator) ==
    IF ~has_row("teams", id)
    THEN Refuse("update", "teams", id, competition, creator, 404, "not found")
    ELSE IF ~resolves("competitions", competition)
    THEN Refuse("update", "teams", id, competition, creator, 400, "competition")
    ELSE IF ~resolves("users", creator)
    THEN Refuse("update", "teams", id, competition, creator, 400, "creator")
    ELSE Updated("teams", id, competition, creator,
                 update_team(id, competition, creator).row)

\* PUT /teams/{id}
UpdateTeam(id, competition, creator) ==
    IF ~resolves("competitions", competition)
    THEN Refuse("update", "teams", id, competition, creator, 400, "competition")
    ELSE IF ~resolves("users", creator)
    THEN Refuse("update", "teams", id, competition, creator, 400, "creator")
    ELSE LET team == update_team(id, competition, creator) IN
         IF team.ret = "None"
         THEN Refuse("update", "teams", id, competition, creator, 404, "not found")
         ELSE Updated("teams", id, competition, creator, team.row)

DeleteTeam(id) == Deleted("teams", id)

EntityNext ==
    \/ \E email, username \in Values : UserRegister(email, username)
    \/ \E invite_code \in Values : CreateCompetition(invite_code)
    \/ \E id \in RowIds("competitions"), invite_code \in Values :
        UpdateCompetition(id, invite_code)
    \/ \E id \in RowIds("competitions") : GetCompetition(id)
    \/ \E invite_code \in Values : GetCompetitionByInvite(invite_code)
    \/ \E id \in RowIds("competitions") : DeleteCompetition(id)
    \/ \E type \in Values : CreateTag(type)
    \/ \E id \in RowIds("tags"), type \in Values : UpdateTag(id, type)
    \/ \E id \in RowIds("tags") : DeleteTag(id)
    \/ \E competition \in RowIds("competitions"), creator \in RowIds("users") :
        CreateTeam(competition, creator)
    \/ \E id \in RowIds("teams"), competition \in RowIds("competitions"),
          creator \in RowIds("users") : UpdateTeam(id, competition, creator)
    \/ \E id \in RowIds("teams") : DeleteTeam(id)

EntitySpec == EntityInit /\ [][EntityNext]_vars

(***************************************************************************)
(* Concurrent registrations.  user_register's two lookups and create_user's *)
(* insert are separate storage steps of the request's own session; the     *)
(* unique indexes of the users table are checked by the storage when the   *)
(* insert is committed.                                                    *)
(***************************************************************************)
RegInit ==
    /\ row = EmptyRows
    /\ reply = NoReply
    /\ entity = [t \in Tables |-> {}]
    /\ nextId = [t \in Creatable |-> 1]
    /\ rel = EmptyRel
    /\ last = NoRequest
    /\ req = [c \in Clients |-> Idle]
    /\ tester = NoCall

\* user_register up to and including its two lookups: the request is
\* answered 400 at once when either finds a user.
RegisterCheck(c, email, username) ==
    /\ MaySend(c)
    /\ req' = [req EXCEPT ![c] =
                 IF \/ get_user_by_email(email) # "None"
                    \/ get_user_by_username(username) # "None"
                 THEN Sent(c, "done", "register", "users", email, username, 400)
                 ELSE Sent(c, "insert", "register", "users", email, username, 0)]
    /\ UNCHANGED <<tester, row, reply, entity, nextId, rel, last>>

\* db.add(user); db.commit() of create_user: 201, or the IntegrityError of
\* the storage, which the handler answers with 500.
RegisterInsert(c) ==
    LET user == create_user(req[c].a, req[c].b) IN
    /\ req[c].pc = "insert"
    /\ req[c].op = "register"
    /\ IF user.ret # "DTO"
       THEN /\ req' = [req EXCEPT ![c].pc = "done", ![c].status = 500]
            /\ UNCHANGED <<tester, row, nextId>>
       ELSE /\ row' = user.row
            /\ nextId' = [nextId EXCEPT !.users = @ + 1]
            /\ req' = [req EXCEPT ![c].pc = "done", ![c].status = 201]
    /\ UNCHANGED <<tester, reply, entity, rel, last>>

RegNext ==
    \E c \in Clients :
        \/ \E email, username \in Values : RegisterCheck(c, email, username)
        \/ RegisterInsert(c)
        \/ Receive(c)

RegSpec == RegInit /\ [][RegNext]_vars

(***************************************************************************)
(* teste.py: APITester.make_request, the loop over range(max_retries + 1).  *)
(* sent counts the HTTP requests of the call, results the TestResults      *)
(* appended to test_results.                                               *)
(***************************************************************************)
\* Bounds: the largest max_retries a call is made with, and the calls made.
MaxRetries == 2
MaxCalls == 3

ClientInit ==
    /\ tester = NoCall
    /\ row = EmptyRows
    /\ reply = NoReply
    /\ entity = [t \in Tables |-> {}]
    /\ nextId = [t \in Creatable |-> 1]
    /\ rel = EmptyRel
    /\ last = NoRequest
    /\ req = [c \in Clients |-> Idle]

\* What one attempt ends with: a response (of any status), one of the two
\* exceptions the loop retries on, or any other exception.
Outcomes == {"response", "Timeout", "ConnectionError", "Exception"}

\* Variant: any exception is retried.
should_retry_any_exception(outcome, attempt, max_retries) ==
    outcome \in {"Timeout", "ConnectionError", "Exception"} /\ attempt < max_retries

\* except Timeout / except ConnectionError: if attempt < max_retries: continue
should_retry(outcome, attempt, max_retries) ==
    outcome \in {"Timeout", "ConnectionError"} /\ attempt < max_retries

\* make_request(method, endpoint, ..., max_retries): up to the for loop.
\* supported: the method is one of GET, POST, PUT, DELETE.
make_request(max_retries, supported) ==
    /\ tester.pc = "idle"
    /\ tester.calls < MaxCalls
    /\ tester' = [tester EXCEPT !.pc = "loop", !.supported = supported,
                                !.max_retries = max_retries, !.attempt = 0,
                                !.sent = 0, !.outcome = "none", !.calls = @ + 1]
    /\ UNCHANGED <<entity, nextId, rel, last, req, row, reply>>

\* One iteration of the loop.  An unsupported method raises ValueError
\* before any request is sent, which the last except clause catches.
Attempt(outcome) ==
    /\ tester.pc = "loop"
    /\ tester' =
         IF ~tester.supported
         THEN [tester EXCEPT !.pc = "append", !.outcome = "Exception"]
         ELSE IF should_retry(outcome, tester.attempt, tester.max_retries)
         THEN [tester EXCEPT !.sent = @ + 1, !.outcome = outcome, !.attempt = @ + 1]
         ELSE [tester EXCEPT !.sent = @ + 1, !.outcome = outcome, !.pc = "append"]
    /\ UNCHANGED <<entity, nextId, rel, last, req, row, reply>>

\* self.test_results.append(result); return result
AppendResult ==
    /\ tester.pc = "append"
    /\ tester' = [tester EXCEPT !.pc = "idle", !.results = @ + 1]
    /\ UNCHANGED <<entity, nextId, rel, last, req, row, reply>>

ClientNext ==
    \/ \E max_retries \in 0..MaxRetries, supported \in BOOLEAN :
        make_request(max_retries, supported)
    \/ \E outcome \in Outcomes : Attempt(outcome)
    \/ AppendResult

ClientSpec == ClientInit /\ [][ClientNext]_vars

\* Every statement of make_request returns: a request ends with a response
\* or an exception (timeout = (5, 30)), and time.sleep returns.
ClientFairSpec == ClientSpec /\ WF_vars(ClientNext)

(***************************************************************************)
(* Properties.                                                             *)
(***************************************************************************)
BothExist(k, a, b) == a \in entity[LeftTable(k)] /\ b \in entity[RightTable(k)]

IsRelationshipRequest(r) == r.op \in {"create_relationship", "delete_relationship"}

\* The number of rows the pair of the last relationship request had before
\* that request ran.
PriorCount ==
    rel[last.table][<<last.a, last.b>>]
      + (IF last.op = "delete_relationship" /\ last.status = 200 THEN 1 ELSE 0)
      - (IF last.op = "create_relationship" /\ last.status = 201 THEN 1 ELSE 0)

\* C1: served one request at a time, the relationship tables never hold two
\* rows of one kind with the same (ref_a, ref_b) pair.
C1_UniquePair == \A k \in Kinds : \A p \in Pairs(k) : rel[k][p] <= 1

\* A create was refused as a duplicate of the one row of its pair.
C1_Witness ==
    /\ last.op = "create_relationship"
    /\ last.detail = "already exists"
    /\ rel[last.table][<<last.a, last.b>>] = 1

\* C2: of two concurrent creates of the same (kind, ref_a, ref_b), at most
\* one is answered 201 and at most one row of the pair exists afterwards.
C2_ConcurrentCreateOnce ==
    /\ \A c1, c2 \in Clients :
        (/\ c1 # c2
         /\ req[c1].op = "create_relationship" /\ req[c2].op = "create_relationship"
         /\ req[c1].table = req[c2].table
         /\ req[c1].a = req[c2].a /\ req[c1].b = req[c2].b)
        => ~(req[c1].status = 201 /\ req[c2].status = 201)
    /\ \A k \in Kinds : \A p \in Pairs(k) : rel[k][p] <= 1

\* C3: a create for a pair whose two entities exist and which had no row is
\* answered 201 and leaves one row, and the same create sent again would be
\* refused as a duplicate (400).
C3_CreateOnceThenDuplicate ==
    (/\ last.op = "create_relationship"
     /\ BothExist(last.table, last.a, last.b)
     /\ PriorCount = 0)
    => /\ last.status = 201
       /\ rel[last.table][<<last.a, last.b>>] = 1
       /\ create_relationship_endpoint(last.table, last.a, last.b).status = 400
       /\ create_relationship_endpoint(last.table, last.a, last.b).detail = "already exists"

\* C4: a create naming an entity that does not exist is answered 400 with a
\* reference-not-found detail, and writes no row.
C4_MissingReferenceRejected ==
    (/\ last.op = "create_relationship"
     /\ ~BothExist(last.table, last.a, last.b))
    => /\ last.status = 400
       /\ last.detail \in {"ref_a not found", "ref_b not found"}
       /\ rel[last.table][<<last.a, last.b>>] = PriorCount

\* C5: a delete of a pair that is present is answered 200 and leaves the
\* pair absent; the same delete sent again is answered 404 and leaves the
\* tables as they are.
C5_DeleteIdempotent ==
    [][(/\ last'.op = "delete_relationship"
        /\ find_relationship(rel, last'.table, last'.a, last'.b))
       => /\ last'.status = 200
          /\ ~find_relationship(rel', last'.table, last'.a, last'.b)
          /\ delete_relationship_endpoint(last.table, last.a, last.b)'.status = 404
          /\ delete_relationship_endpoint(last.table, last.a, last.b)'.rel = rel']_vars

\* A delete of a present pair has been answered 200.
C5_Witness ==
    /\ last.op = "delete_relationship"
    /\ last.status = 200
    /\ PriorCount = 1

\* C6: with both entities existing the response depends on the pair's state
\* alone: create is answered 201 when the pair was absent and refused as a
\* duplicate when present; delete is answered 200 when present, 404 when absent.
C6_TwoStateMachine ==
    (IsRelationshipRequest(last) /\ BothExist(last.table, last.a, last.b))
    => IF last.op = "create_relationship"
       THEN IF PriorCount = 0
            THEN last.status = 201
            ELSE last.status = 400 /\ last.detail = "already exists"
       ELSE IF PriorCount > 0
            THEN last.status = 200
            ELSE last.status = 404

\* C7: right after a create answered 201 the lookup of its pair finds a row,
\* and right after a delete answered 200 the lookup finds none.
C7_RoundTrip ==
    /\ (last.op = "create_relationship" /\ last.status = 201)
        => find_relationship(rel, last.table, last.a, last.b)
    /\ (last.op = "delete_relationship" /\ last.status = 200)
        => ~find_relationship(rel, last.table, last.a, last.b)

\* A create has been answered 201 and the lookup finds its row.
C7_Witness ==
    /\ last.op = "create_relationship"
    /\ last.status = 201
    /\ find_relationship(rel, last.table, last.a, last.b)

\* C8: served one request at a time, a relationship row is only ever
\* inserted in a state in which both entities it names exist.
C8_NoOrphanCreation ==
    [][rel' # rel =>
         \A k \in Kinds : \A p \in Pairs(k) :
             rel'[k][p] > rel[k][p] => BothExist(k, p[1], p[2])]_vars

\* A row has just been inserted, both of its entities existing.
C8_Witness ==
    /\ last.op = "create_relationship"
    /\ PriorCount = 0
    /\ rel[last.table][<<last.a, last.b>>] = 1
    /\ BothExist(last.table, last.a, last.b)

\* C9: no other request's write takes effect between the existence check
\* and the insert of a create: while a create is about to insert, both
\* entities it has checked still exist.
C9_CheckInsertAtomic ==
    \A c \in Clients :
        req[c].pc = "insert" => BothExist(req[c].table, req[c].a, req[c].b)

\* C10: a step of an entity handler leaves every relationship table as it
\* is; rows are added by create-relationship steps only and removed by
\* delete-relationship steps only.
C10_EntityOpsKeepRelationships ==
    [][/\ ~IsRelationshipRequest(last') => rel' = rel
       /\ rel' # rel =>
            \A k \in Kinds : \A p \in Pairs(k) :
                /\ rel'[k][p] > rel[k][p]
                     => last' = Response("create_relationship", k, p[1], p[2], 201, "created")
                /\ rel'[k][p] < rel[k][p]
                     => last' = Response("delete_relationship", k, p[1], p[2], 200, "deleted")]_vars

\* An entity has been deleted while a relationship row naming it stays.
C10_Witness ==
    /\ last.op = "delete"
    /\ last.status = 200
    /\ \E k \in Kinds : \E p \in Pairs(k) :
        /\ rel[k][p] > 0
        /\ \/ (LeftTable(k) = last.table /\ p[1] = last.a)
           \/ (RightTable(k) = last.table /\ p[2] = last.a)

\* The relationship rows of r name the row id of entity table t.
Referenced(r, t, id) ==
    \E k \in Kinds : \E p \in Pairs(k) :
        /\ r[k][p] > 0
        /\ \/ (LeftTable(k) = t /\ p[1] = id)
           \/ (RightTable(k) = t /\ p[2] = id)

C12_CommitFailureLeavesStore ==
    [][last'.detail = "commit failed"
       => /\ last'.status >= 500
          /\ rel' = rel
          /\ entity' = entity]_vars

\* The commit of a delete has failed and the row it was to remove is there.
C12_Witness ==
    /\ last.op = "delete_relationship"
    /\ last.detail = "commit failed"
    /\ last.status = 500
    /\ rel[last.table][<<last.a, last.b>>] = 1

\* C13: a create checks ref_a, then ref_b, then the pair: a missing ref_a is
\* answered 400 naming ref_a whatever ref_b and the pair are, a missing
\* ref_b alone is answered 400 naming ref_b, and a duplicate is reported
\* only when both entities exist.
C13_CheckOrder ==
    last.op = "create_relationship"
    => /\ last.a \notin entity[LeftTable(last.table)]
            => last.status = 400 /\ last.detail = "ref_a not found"
       /\ (/\ last.a \in entity[LeftTable(last.table)]
           /\ last.b \notin entity[RightTable(last.table)])
            => last.status = 400 /\ last.detail = "ref_b not found"
       /\ last.detail = "already exists"
            => BothExist(last.table, last.a, last.b)

\* C14: a caller's error is never answered with a 5xx status: a create that
\* names a missing entity or a pair already present is answered 400, a
\* delete of an absent pair 404, and the engine returns None for a duplicate.
C14_CallerErrorsNot5xx ==
    /\ (/\ last.op = "create_relationship"
        /\ (~BothExist(last.table, last.a, last.b) \/ PriorCount > 0))
        => last.status = 400
    /\ (last.op = "delete_relationship" /\ PriorCount = 0)
        => last.status = 404
    /\ \A k \in Kinds : \A p \in Pairs(k) :
        find_relationship(rel, k, p[1], p[2])
            => create_relationship(k, p[1], p[2]).ret = "None"

\* C15: every kind obeys the one contract: for each kind, a create of a
\* pair that has no row and whose two entities exist is answered 201, and
\* the delete of that pair that follows is answered 200 and removes the row.
C15_UniformContract ==
    \A k \in Kinds :
        (/\ last.op = "create_relationship"
         /\ last.table = k
         /\ BothExist(k, last.a, last.b)
         /\ PriorCount = 0)
        => /\ last.status = 201
           /\ delete_relationship_endpoint(k, last.a, last.b).status = 200
           /\ ~find_relationship(delete_relationship_endpoint(k, last.a, last.b).rel,
                                 k, last.a, last.b)

\* Column values held by the rows of a table, read from the table itself.
EmailTaken(r, email) == \E id \in DOMAIN r.users : r.users[id].email = email

UsernameTaken(r, username) == \E id \in DOMAIN r.users : r.users[id].username = username

CodeHeldByOther(r, id, invite_code) ==
    \E other \in DOMAIN r.competitions \ {id} :
        r.competitions[other].invite_code = invite_code

TypeHeldByOther(r, id, type) ==
    \E other \in DOMAIN r.tags \ {id} : r.tags[other].type = type

\* C16: no two users share an e-mail or a username, and a registration whose
\* e-mail or username is already registered is answered 400 and leaves the
\* users table as it is.
C16_UniqueUsers ==
    [][/\ \A i, j \in DOMAIN row'.users :
            i # j => /\ row'.users[i].email # row'.users[j].email
                     /\ row'.users[i].username # row'.users[j].username
       /\ (/\ reply'.op = "create" /\ reply'.table = "users"
           /\ (EmailTaken(row, reply'.x) \/ UsernameTaken(row, reply'.y)))
          => reply'.status = 400 /\ row' = row]_vars

\* A registration with a fresh e-mail and a username already registered has
\* been answered 400.
C16_Witness ==
    /\ reply.op = "create" /\ reply.table = "users"
    /\ reply.status = 400 /\ reply.detail = "username"
    /\ ~EmailTaken(row, reply.x)
    /\ UsernameTaken(row, reply.y)

\* C17: no two competitions share an invite code; a create with an invite
\* code in use is answered 400, and so is an update to an invite code another
\* competition holds, each leaving the competitions table as it is.
C17_UniqueInviteCodes ==
    [][/\ \A i, j \in DOMAIN row'.competitions :
            i # j => row'.competitions[i].invite_code # row'.competitions[j].invite_code
       /\ (/\ reply'.op = "create" /\ reply'.table = "competitions"
           /\ CodeHeldByOther(row, 0, reply'.x))
          => reply'.status = 400 /\ row' = row
       /\ (/\ reply'.op = "update" /\ reply'.table = "competitions"
           /\ reply'.id \in DOMAIN row.competitions
           /\ CodeHeldByOther(row, reply'.id, reply'.x))
          => reply'.status = 400 /\ row' = row]_vars

\* An update of a competition to the invite code of another one has been
\* answered 400.
C17_Witness ==
    /\ reply.op = "update" /\ reply.table = "competitions"
    /\ reply.status = 400
    /\ reply.id \in DOMAIN row.competitions
    /\ CodeHeldByOther(row, reply.id, reply.x)

\* C18: no two tags share a type; a create with a type in use is answered
\* 400, and so is an update to a type another tag holds, each leaving the
\* tags table as it is.
C18_UniqueTagTypes ==
    [][/\ \A i, j \in DOMAIN row'.tags :
            i # j => row'.tags[i].type # row'.tags[j].type
       /\ (/\ reply'.op = "create" /\ reply'.table = "tags"
           /\ TypeHeldByOther(row, 0, reply'.x))
          => reply'.status = 400 /\ row' = row
       /\ (/\ reply'.op = "update" /\ reply'.table = "tags"
           /\ reply'.id \in DOMAIN row.tags
           /\ TypeHeldByOther(row, reply'.id, reply'.x))
          => reply'.status = 400 /\ row' = row]_vars

\* An update of a tag to the type of another tag has been answered 400.
C18_Witness ==
    /\ reply.op = "update" /\ reply.table = "tags"
    /\ reply.status = 400
    /\ reply.id \in DOMAIN row.tags
    /\ TypeHeldByOther(row, reply.id, reply.x)

\* C19: a team row is written or changed only by a request whose competition
\* and creator both exist at that moment; a create or update naming a
\* missing competition or creator is answered 400 and leaves the teams table
\* as it is.
C19_TeamReferencesResolve ==
    [][(reply'.table = "teams" /\ reply'.op \in {"create", "update"})
       => IF /\ reply'.x \in DOMAIN row.competitions
             /\ reply'.y \in DOMAIN row.users
          THEN reply'.status \in {200, 201, 404}
          ELSE reply'.status = 400 /\ row' = row]_vars

\* A team has been created naming an existing competition and creator, and a
\* later update naming a creator that does not exist has been answered 400.
C19_Witness ==
    /\ reply.op = "update" /\ reply.table = "teams"
    /\ reply.status = 400 /\ reply.detail = "creator"
    /\ reply.id \in DOMAIN row.teams
    /\ row.teams[reply.id].creator \in DOMAIN row.users

\* C20: a create of a competition with a fresh invite code is answered 201;
\* while the competition exists a lookup by id and by invite code is
\* answered 200 and an update that takes no other competition's invite code
\* is answered 200; after its delete a lookup by id is answered 404.
C20_CompetitionLifecycle ==
    /\ (/\ reply.op = "create" /\ reply.table = "competitions"
        /\ reply.detail # "invite_code")
        => reply.status = 201
    /\ (/\ reply.op \in {"get", "update"} /\ reply.table = "competitions"
        /\ reply.id \in DOMAIN row.competitions
        /\ ~CodeHeldByOther(row, reply.id, reply.x))
        => reply.status = 200
    /\ (/\ reply.op = "get_by_invite"
        /\ CodeHeldByOther(row, 0, reply.x))
        => reply.status = 200
    /\ (/\ reply.op = "get" /\ reply.table = "competitions"
        /\ reply.id \notin DOMAIN row.competitions)
        => reply.status = 404

\* C21: a create of an exercise is answered 201, and an update of an
\* exercise that exists is answered 200.
C21_ExerciseLifecycle ==
    /\ (last.op = "create" /\ last.table = "exercises") => last.status = 201
    /\ (/\ last.op = "update" /\ last.table = "exercises"
        /\ last.a \in entity["exercises"])
        => last.status = 200

C23_DeleteFrame ==
    [][last'.op = "delete_relationship"
       => /\ entity' = entity
          /\ IF find_relationship(rel, last'.table, last'.a, last'.b)
             THEN rel' = [rel EXCEPT ![last'.table][<<last'.a, last'.b>>] = 0]
             ELSE rel' = rel]_vars

\* A pair has been deleted while another pair of the same kind stays present.
C23_Witness ==
    /\ last.op = "delete_relationship" /\ last.status = 200
    /\ \E p \in Pairs(last.table) :
        p # <<last.a, last.b>> /\ rel[last.table][p] > 0

\* C24: a create answered 201 adds one row, of the requested kind and pair,
\* which had none; every other pair, every other kind and every entity
\* table are unchanged.
C24_CreateFrame ==
    [][(last'.op = "create_relationship" /\ last'.status = 201)
       => /\ entity' = entity
          /\ rel[last'.table][<<last'.a, last'.b>>] = 0
          /\ rel' = [rel EXCEPT ![last'.table][<<last'.a, last'.b>>] = 1]]_vars

\* A pair has been created while the same two ids are a present pair of
\* another kind.
C24_Witness ==
    /\ last.op = "create_relationship" /\ last.status = 201
    /\ \E k \in Kinds \ {last.table} :
        /\ <<last.a, last.b>> \in Pairs(k)
        /\ rel[k][<<last.a, last.b>>] > 0

C26_UpdateKeepsOwnValue ==
    /\ (/\ reply.op = "update" /\ reply.table = "competitions"
        /\ reply.id \in DOMAIN row.competitions
        /\ row.competitions[reply.id].invite_code = reply.x)
        => reply.status = 200
    /\ (/\ reply.op = "update" /\ reply.table = "tags"
        /\ reply.id \in DOMAIN row.tags
        /\ row.tags[reply.id].type = reply.x)
        => reply.status = 200

\* C27: the answer to a delete of a pair depends on the pair alone: 200 when
\* it was present, 404 when it was absent, whether or not the entities it
\* names exist, and never a reference-not-found answer.
C27_DeleteIgnoresEntities ==
    last.op = "delete_relationship"
    => /\ PriorCount > 0 => last.status = 200
       /\ PriorCount = 0 => last.status = 404
       /\ last.detail \notin {"ref_a not found", "ref_b not found"}

\* A row naming an entity that no longer exists has been deleted: 200.
C27_Witness ==
    /\ last.op = "delete_relationship" /\ last.status = 200
    /\ ~BothExist(last.table, last.a, last.b)

\* C28: an update of a team id that does not exist is answered 400 when the
\* competition or the creator it names is missing and 404 when both exist,
\* and leaves the tables as they are.
C28_UpdateTeamOrder ==
    [][(/\ reply'.op = "update" /\ reply'.table = "teams"
        /\ reply'.id \notin DOMAIN row.teams)
       => /\ row' = row
          /\ reply'.status =
                IF /\ reply'.x \in DOMAIN row.competitions
                   /\ reply'.y \in DOMAIN row.users
                THEN 404 ELSE 400]_vars

\* An update of a team id that does not exist, naming a competition that
\* does not exist either, has been answered 400.
C28_Witness ==
    /\ reply.op = "update" /\ reply.table = "teams"
    /\ reply.id \notin DOMAIN row.teams
    /\ reply.x \notin DOMAIN row.competitions
    /\ reply.status = 400

\* C29: of two concurrent registrations with the same e-mail or the same
\* username at most one is answered 201; a registration that is not
\* answered 201 creates no user and one that is creates one; no two users
\* have the same e-mail or the same username.
C29_ConcurrentRegisterOnce ==
    /\ [](/\ \A c1, c2 \in Clients :
              (/\ c1 # c2
               /\ req[c1].op = "register" /\ req[c2].op = "register"
               /\ (req[c1].a = req[c2].a \/ req[c1].b = req[c2].b))
              => ~(req[c1].status = 201 /\ req[c2].status = 201)
          /\ \A i, j \in DOMAIN row.users :
              i # j => /\ row.users[i].email # row.users[j].email
                       /\ row.users[i].username # row.users[j].username)
    /\ [][\A c \in Clients :
            (req[c].pc # "done" /\ req'[c].pc = "done")
            => IF req'[c].status = 201
               THEN /\ DOMAIN row'.users = DOMAIN row.users \cup {nextId.users}
                    /\ row'.users[nextId.users] =
                          [email |-> req'[c].a, username |-> req'[c].b]
               ELSE row' = row]_vars

\* Two registrations with the same e-mail have both passed the lookups; one
\* has been answered 201 and the other's insert has been refused.
C29_Witness ==
    \E c1, c2 \in Clients :
        /\ req[c1].op = "register" /\ req[c2].op = "register"
        /\ req[c1].a = req[c2].a
        /\ req[c1].status = 201 /\ req[c2].status = 500
        /\ Cardinality(DOMAIN row.users) = 1

\* C30: a call of make_request sends at most max_retries + 1 requests, goes
\* round its loop again only after a timeout or a connection error, appends
\* one TestResult per call, and returns.
C30_MakeRequestTerminates ==
    /\ [](/\ tester.sent <= tester.max_retries + 1
          /\ tester.attempt <= tester.max_retries
          /\ tester.results = tester.calls - (IF tester.pc = "idle" THEN 0 ELSE 1))
    /\ [][(tester.pc = "loop" /\ tester'.pc = "loop")
          => /\ tester'.outcome \in {"Timeout", "ConnectionError"}
             /\ tester'.attempt = tester.attempt + 1]_vars
    /\ (tester.pc = "loop" ~> tester.pc = "idle")

\* A call has returned after every one of its max_retries + 1 requests, more
\* than one, timed out, with its one TestResult appended.
C30_Witness ==
    /\ tester.pc = "idle"
    /\ tester.outcome = "Timeout"
    /\ tester.max_retries >= 1
    /\ tester.sent = tester.max_retries + 1
    /\ tester.results = tester.calls

====
